---------------------------- MODULE Spec2Model ----------------------------
(***************************************************************************)
(* Model of fs_omero_pyfs/fs.py: a PyFilesystem2 facade (OmeroFS) that     *)
(* emulates directories on an OMERO server with TagAnnotations, and files  *)
(* with OriginalFiles linked to the tag of their directory, plus the file  *)
(* handle OriginalFileObj.                                                 *)
(*                                                                         *)
(* The server is a store of four tables: tags, tag-to-tag links, files and *)
(* file-to-tag links.  Every facade method is an operator from a store to  *)
(* a result record [err, s, val]: err is "ok" or the name of the exception *)
(* raised, s the store afterwards.  The actions apply these operators.     *)
(*                                                                         *)
(* A path string is the sequence of the pieces between its slashes: "/" is *)
(* << >>, "/a/b" is <<"a","b">> and "/a/" is <<"a","">>.                   *)
(***************************************************************************)
EXTENDS Integers, Sequences, FiniteSets, TLC

VARIABLES
    tags,      \* TagAnnotation rows: [id, ns, textValue]
    aalinks,   \* AnnotationAnnotationLink rows: [parent, child] (tag ids)
    files,     \* OriginalFile rows: [id, name, path, data, mtime, ctime]
    falinks,   \* OriginalFileAnnotationLink rows: [parent (file id), child (tag id)]
    fs,        \* the OmeroFS instance: [ns, root]
    fobj,      \* the caller's OriginalFileObj: [fid, pos, readable, writable]
    last,      \* the last call and its outcome: [op, err, val]
    calls      \* per caller, the call that has passed its checks and not yet created

vars == <<tags, aalinks, files, falinks, fs, fobj, last, calls>>

----------------------------------------------------------------------------
(* Bounds of the model *)

MaxTags == 3      \* TagAnnotations in the store
MaxFiles == 1     \* OriginalFiles in the store
MaxSize == 2      \* bytes in a file

Names == {"a", "b"}
Bytes == {0, 1}   \* 0 is the NUL byte b'\0'

DEFAULT_NS == "github.com/manics/fs-omero-pyfilesystem"

SeqsUpTo(S, n) == UNION {[1..k -> S] : k \in 0..n}

\* validated paths, and the strings a caller may pass (with a trailing slash)
Paths == {<< >>} \cup {<<x>> : x \in Names} \cup {<<x, y>> : x, y \in Names}
RawPaths == Paths \cup {<<"a", "">>, <<"a", "b", "">>}
Roots == {<< >>, <<"a">>}
ByteStrings == SeqsUpTo(Bytes, MaxSize)
Times == {0, 1}   \* timestamps of setinfo; 0: the key is absent (or falsy)
IOFileIds == {1}  \* the files of the byte-level specification SpecIO

Modes == {{"r"}, {"r", "+"}, {"w"}, {"w", "+"}, {"a"}, {"a", "+"},
          {"x"}, {"x", "+"}}
TreeModes == {{"r"}, {"w"}, {"a", "+"}, {"x"}}   \* the modes Spec opens files in

----------------------------------------------------------------------------
(* The store and results *)

None == [id |-> 0]

Store == [tags |-> tags, aalinks |-> aalinks, files |-> files, falinks |-> falinks]

EmptyStore == [tags |-> {}, aalinks |-> {}, files |-> {}, falinks |-> {}]

\* a resolver's result
Found(v) == [err |-> "ok", val |-> v]
Thrown(e) == [err |-> e, val |-> None]

\* a facade method's result
Ok(s, v) == [err |-> "ok", s |-> s, val |-> v]
Raise(e, s) == [err |-> e, s |-> s, val |-> None]

\* the id the server gives a new row.  The server never reuses an id; the
\* model takes the smallest id no row of the table holds, which is the same
\* up to renaming as long as nothing refers to a deleted row.
FreshId(rows) ==
    CHOOSE i \in 1..(Cardinality(rows) + 1) : \A r \in rows : r.id # i

----------------------------------------------------------------------------
(* Path Resolver *)

\* fs.base.FS.validatepath: abspath(normpath(path))
validatepath(path) == SelectSeq(path, LAMBDA x : x # "")

_split_basename(path) ==
    LET p == validatepath(path)
    IN  IF p = << >>
        THEN [dirname |-> << >>, basename |-> ""]
        ELSE [dirname |-> validatepath(SubSeq(p, 1, Len(p) - 1)),
              basename |-> p[Len(p)]]

RECURSIVE _get_file(_, _, _, _, _)
RECURSIVE _get_dir(_, _, _, _, _)

_get_file(s, self, path, throw, checkother) ==
    LET sb == _split_basename(path)
        rows == {l \in s.falinks :
                    \E f \in s.files, t \in s.tags :
                        /\ f.id = l.parent /\ t.id = l.child
                        /\ f.name = sb.basename
                        /\ t.textValue = sb.dirname
                        /\ t.ns = self.ns}
    IN  IF sb.basename = "" /\ throw THEN Thrown("FileExpected")
        ELSE IF rows = {}
        THEN IF throw
             THEN IF checkother
                  THEN LET d == _get_dir(s, self, path, FALSE, TRUE)
                       IN  IF d.err # "ok" THEN d
                           ELSE IF d.val # None THEN Thrown("FileExpected")
                           ELSE Thrown("ResourceNotFound")
                  ELSE Thrown("ResourceNotFound")
             ELSE Found(None)
        ELSE IF Cardinality(rows) > 1 THEN Thrown("ResourceError")
        ELSE Found(CHOOSE f \in s.files : \E l \in rows : l.parent = f.id)

\* _get_dir whose query leaves out the ns attribute of line 207
_get_dir_anyns(s, self, path, throw, checkother) ==
    LET vpath == validatepath(path)
        dirs == {t \in s.tags : t.textValue = vpath}
    IN  IF dirs = {}
        THEN IF throw THEN Thrown("ResourceNotFound") ELSE Found(None)
        ELSE IF Cardinality(dirs) > 1 THEN Thrown("ResourceError")
        ELSE Found(CHOOSE t \in dirs : TRUE)

_get_dir(s, self, path, throw, checkother) ==
    LET vpath == validatepath(path)
        dirs == {t \in s.tags : t.ns = self.ns /\ t.textValue = vpath}
    IN  IF dirs = {}
        THEN IF throw
             THEN IF checkother
                  THEN LET f == _get_file(s, self, path, FALSE, TRUE)
                       IN  IF f.err # "ok" THEN f
                           ELSE IF f.val # None THEN Thrown("DirectoryExpected")
                           ELSE Thrown("ResourceNotFound")
                  ELSE Thrown("ResourceNotFound")
             ELSE Found(None)
        ELSE IF Cardinality(dirs) > 1 THEN Thrown("ResourceError")
        ELSE Found(CHOOSE t \in dirs : TRUE)

----------------------------------------------------------------------------
(* Directory Marker Manager *)

\* _create_tag without the parent.linkAnnotation(d) of line 230
_create_tag_nolink(s, self, path, parent) ==
    LET d == [id |-> FreshId(s.tags), ns |-> self.ns, textValue |-> path]
    IN  [s EXCEPT !.tags = @ \cup {d}]

_create_tag(s, self, path, parent) ==
    LET d == [id |-> FreshId(s.tags), ns |-> self.ns, textValue |-> path]
    IN  [s EXCEPT !.tags = @ \cup {d},
                  !.aalinks = IF parent # None
                              THEN @ \cup {[parent |-> parent.id, child |-> d.id]}
                              ELSE @]

\* OmeroFS.__init__ after the session is created
__init__(s, root, create, ns) ==
    LET self == [ns |-> ns, root |-> root]
        d == _get_dir(s, self, root, ~create, TRUE)
    IN  IF d.err # "ok" THEN Raise(d.err, s)
        ELSE IF d.val = None THEN Ok(_create_tag(s, self, root, None), self)
        ELSE Ok(s, self)

----------------------------------------------------------------------------
(* File Handle Adapter: OriginalFileObj over an OriginalFile of the store *)

NoHandle == [fid |-> 0, pos |-> 0, readable |-> FALSE, writable |-> FALSE]

\* a file handle method's result: the store, the handle and the value returned
HOk(s, h, v) == [err |-> "ok", s |-> s, h |-> h, val |-> v]
HRaise(e, s, h) == [err |-> e, s |-> s, h |-> h, val |-> << >>]

FileOf(s, h) == CHOOSE f \in s.files : f.id = h.fid

Zeros(n) == [i \in 1..n |-> 0]

Min(a, b) == IF a < b THEN a ELSE b
Max(a, b) == IF a > b THEN a ELSE b

\* the RawFileStore primitives of the server
rfs_size(s, h) == Len(FileOf(s, h).data)

rfs_write(s, h, buf, pos, n) ==
    LET f == FileOf(s, h)
        old == f.data
        size == IF n = 0 THEN Len(old) ELSE Max(Len(old), pos + n)
        new == [i \in 1..size |->
                   IF i > pos /\ i <= pos + n THEN buf[i - pos]
                   ELSE IF i <= Len(old) THEN old[i]
                   ELSE 0]
    IN  [s EXCEPT !.files = (@ \ {f}) \cup {[f EXCEPT !.data = new]}]

rfs_truncate(s, h, size) ==
    LET f == FileOf(s, h)
    IN  [s EXCEPT !.files =
            (@ \ {f}) \cup {[f EXCEPT !.data = SubSeq(f.data, 1, Min(size, Len(f.data)))]}]

\* OriginalFileObj(f, readable=, writable=): the handle starts at offset 0
OriginalFileObj(f, readable, writable) ==
    [fid |-> f.id, pos |-> 0, readable |-> readable, writable |-> writable]

\* whence: 0 SEEK_SET, 1 SEEK_CUR, 2 SEEK_END
seek(s, h, n, mode) ==
    LET p == IF mode = 0 THEN n
             ELSE IF mode = 1 THEN h.pos + n
             ELSE rfs_size(s, h) + n
    IN  HOk(s, [h EXCEPT !.pos = p], p)

\* read without the permission test of lines 59-60
read_nocheck(s, h, n) ==
    LET size == rfs_size(s, h)
        endpos == IF n < 0 THEN size ELSE Min(h.pos + n, size)
    IN  IF h.pos < endpos
        THEN HOk(s, [h EXCEPT !.pos = endpos],
                 SubSeq(FileOf(s, h).data, h.pos + 1, endpos))
        ELSE HOk(s, h, << >>)

\* n < 0 reads to the end of the file
read(s, h, n) ==
    IF ~h.readable THEN HRaise("PermissionError", s, h)
    ELSE LET size == rfs_size(s, h)
             endpos == IF n < 0 THEN size ELSE Min(h.pos + n, size)
         IN  IF h.pos < endpos
             THEN HOk(s, [h EXCEPT !.pos = endpos],
                      SubSeq(FileOf(s, h).data, h.pos + 1, endpos))
             ELSE HOk(s, h, << >>)

write(s, h, buf) ==
    IF ~h.writable THEN HRaise("PermissionError", s, h)
    ELSE LET n == Len(buf)
         IN  HOk(rfs_write(s, h, buf, h.pos, n), [h EXCEPT !.pos = @ + n], n)

\* truncate without the self.pos = currentpos of line 105
truncate_noreset(s, h, size0) ==
    IF ~h.writable THEN HRaise("PermissionError", s, h)
    ELSE LET size == IF size0 < 0 THEN h.pos ELSE size0
             currentsize == rfs_size(s, h)
         IN  IF size > currentsize
             THEN LET w == write(s, [h EXCEPT !.pos = currentsize],
                                 Zeros(size - currentsize))
                  IN  HOk(w.s, w.h, size)
             ELSE HOk(rfs_truncate(s, h, size), h, size)

\* size < 0 stands for size=None
truncate(s, h, size0) ==
    IF ~h.writable THEN HRaise("PermissionError", s, h)
    ELSE LET size == IF size0 < 0 THEN h.pos ELSE size0
             currentsize == rfs_size(s, h)
             currentpos == h.pos
         IN  IF size > currentsize
             THEN LET w == write(s, [h EXCEPT !.pos = currentsize],
                                 Zeros(size - currentsize))
                  IN  HOk(w.s, [w.h EXCEPT !.pos = currentpos], size)
             ELSE HOk(rfs_truncate(s, h, size), h, size)

----------------------------------------------------------------------------
(* Filesystem Facade *)

\* one entry per row the two queries of listdir return
listdir(s, self, path) ==
    LET d == _get_dir(s, self, path, TRUE, TRUE)
    IN  IF d.err # "ok" THEN Raise(d.err, s)
        ELSE LET parent == d.val
                 rdirs == {[kind |-> "dir", id |-> t.id,
                            name |-> _split_basename(t.textValue).basename] :
                           t \in {t \in s.tags :
                                    /\ [parent |-> parent.id, child |-> t.id] \in s.aalinks
                                    /\ t.ns = self.ns}}
                 filelinks == {[kind |-> "file", id |-> f.id, name |-> f.name] :
                               f \in {f \in s.files :
                                    [parent |-> f.id, child |-> parent.id] \in s.falinks}}
             IN  Ok(s, rdirs \cup filelinks)

\* makedir that takes recreate=True as an order to create the marker again
makedir_again(s, self, path, recreate) ==
    LET vpath == validatepath(path)
        sb == _split_basename(path)
        d == _get_dir(s, self, path, FALSE, TRUE)
    IN  IF d.err # "ok" THEN Raise(d.err, s)
        ELSE IF d.val # None /\ ~recreate THEN Raise("DirectoryExists", s)
        ELSE LET parent == _get_dir(s, self, sb.dirname, TRUE, TRUE)
             IN  IF parent.err # "ok" THEN Raise(parent.err, s)
                 ELSE Ok(_create_tag(s, self, vpath, parent.val), vpath)

makedir(s, self, path, recreate) ==
    LET vpath == validatepath(path)
        sb == _split_basename(path)
        d == _get_dir(s, self, path, FALSE, TRUE)
    IN  IF d.err # "ok" THEN Raise(d.err, s)
        ELSE IF d.val # None
        THEN IF ~recreate THEN Raise("DirectoryExists", s) ELSE Ok(s, vpath)
        ELSE LET parent == _get_dir(s, self, sb.dirname, TRUE, TRUE)
             IN  IF parent.err # "ok" THEN Raise(parent.err, s)
                 ELSE Ok(_create_tag(s, self, vpath, parent.val), vpath)

\* open_write without the fobj.truncate(0) of lines 325-326
open_write_notrunc(s, f, mode) ==
    LET h1 == OriginalFileObj(f, "+" \in mode, TRUE)
        e == seek(s, h1, 0, 2)
    IN  HOk(e.s, e.h, << >>)

\* open_write without the fobj.seek(0, os.SEEK_END) of line 327
open_write_noseek(s, f, mode) ==
    LET h1 == OriginalFileObj(f, "+" \in mode, TRUE)
        t == IF "w" \in mode THEN truncate(s, h1, 0) ELSE HOk(s, h1, 0)
    IN  HOk(t.s, t.h, << >>)

\* the handle openbin returns in the modes 'a', 'w' and 'x': truncate(0) for
\* 'w', then seek(0, os.SEEK_END)
open_write(s, f, mode) ==
    LET h1 == OriginalFileObj(f, "+" \in mode, TRUE)
        t == IF "w" \in mode THEN truncate(s, h1, 0) ELSE HOk(s, h1, 0)
        e == seek(t.s, t.h, 0, 2)
    IN  HOk(e.s, e.h, << >>)

\* mode is the set of the characters of the mode string
openbin(s, self, path, mode0) ==
    IF "t" \in mode0 THEN HRaise("ValueError", s, NoHandle)
    ELSE
    LET mode == mode0 \ {"b"}
        sb == _split_basename(path)
        parent == _get_dir(s, self, sb.dirname, FALSE, TRUE)
    IN  IF parent.err # "ok" THEN HRaise(parent.err, s, NoHandle)
        ELSE IF parent.val = None THEN HRaise("ResourceNotFound", s, NoHandle)
        ELSE IF "r" \in mode
        THEN LET f == _get_file(s, self, path, TRUE, TRUE)
             IN  IF f.err # "ok" THEN HRaise(f.err, s, NoHandle)
                 ELSE HOk(s, OriginalFileObj(f.val, TRUE, "+" \in mode), << >>)
        ELSE IF "a" \in mode \/ "w" \in mode \/ "x" \in mode
        THEN LET f == _get_file(s, self, path, FALSE, TRUE)
             IN  IF f.err # "ok" THEN HRaise(f.err, s, NoHandle)
                 ELSE IF f.val # None /\ "x" \in mode THEN HRaise("FileExists", s, NoHandle)
                 ELSE
                 LET d == IF f.val = None THEN _get_dir(s, self, path, FALSE, TRUE)
                          ELSE Found(None)
                 IN  IF d.err # "ok" THEN HRaise(d.err, s, NoHandle)
                     ELSE IF d.val # None THEN HRaise("FileExpected", s, NoHandle)
                     ELSE
                     LET new == [id |-> FreshId(s.files), name |-> sb.basename,
                                 path |-> sb.dirname, data |-> << >>,
                                 mtime |-> 0, ctime |-> 0]
                         file == IF f.val = None THEN new ELSE f.val
                         s1 == IF f.val = None
                               THEN [s EXCEPT !.files = @ \cup {new},
                                       !.falinks = @ \cup {[parent |-> new.id,
                                                            child |-> parent.val.id]}]
                               ELSE s
                     IN  open_write(s1, file, mode)
        ELSE HRaise("ValueError", s, NoHandle)

\* conn.deleteObject of an OriginalFile: the row and its links
deleteFile(s, f) ==
    [s EXCEPT !.files = @ \ {f},
              !.falinks = {l \in @ : l.parent # f.id}]

deleteTagRow(s, d) ==
    [s EXCEPT !.tags = @ \ {d},
              !.aalinks = {l \in @ : l.parent # d.id /\ l.child # d.id},
              !.falinks = {l \in @ : l.child # d.id}]

\* conn.deleteObject of a TagAnnotation.  The docstring of removedir records
\* that the server also deletes the parent tag when it has no other children;
\* cascade says whether the server does so in this call.
deleteTag(s, d, cascade) ==
    LET parents == {p \in s.tags : [parent |-> p.id, child |-> d.id] \in s.aalinks}
        s1 == deleteTagRow(s, d)
        orphaned == {p \in parents :
                        /\ \A l \in s1.aalinks : l.parent # p.id
                        /\ \A l \in s1.falinks : l.child # p.id}
    IN  IF cascade
        THEN [s1 EXCEPT !.tags = @ \ orphaned,
                        !.aalinks = {l \in @ : \A p \in orphaned :
                                        l.parent # p.id /\ l.child # p.id}]
        ELSE s1

remove(s, self, path) ==
    LET f == _get_file(s, self, path, TRUE, TRUE)
    IN  IF f.err # "ok" THEN Raise(f.err, s)
        ELSE Ok(deleteFile(s, f.val), None)

\* removedir without the DirectoryNotEmpty check of lines 352-354
removedir_nocheck(s, self, path, cascade) ==
    LET vpath == validatepath(path)
    IN  IF vpath = self.root THEN Raise("RemoveRootError", s)
        ELSE LET d == _get_dir(s, self, path, TRUE, TRUE)
             IN  IF d.err # "ok" THEN Raise(d.err, s)
                 ELSE Ok(deleteTag(s, d.val, cascade), None)

removedir(s, self, path, cascade) ==
    LET vpath == validatepath(path)
    IN  IF vpath = self.root THEN Raise("RemoveRootError", s)
        ELSE LET d == _get_dir(s, self, path, TRUE, TRUE)
             IN  IF d.err # "ok" THEN Raise(d.err, s)
                 ELSE LET children == listdir(s, self, path)
                      IN  IF children.err # "ok" THEN Raise(children.err, s)
                          ELSE IF children.val # {} THEN Raise("DirectoryNotEmpty", s)
                          ELSE Ok(deleteTag(s, d.val, cascade), None)

\* setinfo that supports nothing
setinfo_unsupported(s, self, path, info) == Raise("Unsupported", s)

\* info is [modified, created]; 0 stands for an absent (or falsy) value
setinfo(s, self, path, info) ==
    LET f == _get_file(s, self, path, TRUE, TRUE)
    IN  IF f.err # "ok" THEN Raise(f.err, s)
        ELSE LET f1 == [f.val EXCEPT
                          !.mtime = IF info.modified # 0 THEN info.modified * 1000 ELSE @,
                          !.ctime = IF info.created # 0 THEN info.created * 1000 ELSE @]
             IN  Ok([s EXCEPT !.files = (@ \ {f.val}) \cup {f1}], None)

----------------------------------------------------------------------------
(* The state machines.  Spec is one OmeroFS instance whose caller makes and *)
(* removes directories and files; SpecIO is one OmeroFS instance whose      *)
(* caller reads and writes the bytes of files through a handle.             *)

Call(op, r) == [op |-> op, err |-> r.err, val |-> r.val]
NoVal(r) == [r EXCEPT !.val = << >>]

SetStore(s) ==
    /\ tags' = s.tags
    /\ aalinks' = s.aalinks
    /\ files' = s.files
    /\ falinks' = s.falinks

HandleOpen == fobj # NoHandle

\* the callers that share the server
Callers == {1, 2}

Idle == [op |-> "idle"]

NoCalls == [c \in Callers |-> Idle]

\* OmeroFS(root=root, create=True) on an empty server
Init ==
    \E root \in Roots :
        LET r == __init__(EmptyStore, root, TRUE, DEFAULT_NS)
        IN  /\ tags = r.s.tags /\ aalinks = r.s.aalinks
            /\ files = r.s.files /\ falinks = r.s.falinks
            /\ fs = r.val
            /\ fobj = NoHandle
            /\ calls = NoCalls
            /\ last = Call("__init__", NoVal(r))

MakeDir ==
    \E path \in RawPaths, recreate \in BOOLEAN :
        LET r == makedir(Store, fs, path, recreate)
        IN  /\ Cardinality(r.s.tags) <= MaxTags
            /\ SetStore(r.s)
            /\ last' = Call("makedir", NoVal(r))
            /\ UNCHANGED <<fs, fobj, calls>>

\* with fs.openbin(path, mode): pass
OpenClose ==
    \E path \in RawPaths, mode \in TreeModes :
        LET r == openbin(Store, fs, path, mode)
        IN  /\ Cardinality(r.s.files) <= MaxFiles
            /\ SetStore(r.s)
            /\ last' = Call("openbin", r)
            /\ UNCHANGED <<fs, fobj, calls>>

Remove ==
    \E path \in RawPaths :
        LET r == remove(Store, fs, path)
        IN  /\ SetStore(r.s)
            \* a handle on the deleted file is of no further use
            /\ fobj' = IF \E f \in r.s.files : f.id = fobj.fid THEN fobj ELSE NoHandle
            /\ last' = Call("remove", NoVal(r))
            /\ UNCHANGED <<fs, calls>>

RemoveDir ==
    \E path \in RawPaths, cascade \in BOOLEAN :
        LET r == removedir(Store, fs, path, cascade)
        IN  /\ SetStore(r.s)
            /\ last' = Call("removedir", NoVal(r))
            /\ UNCHANGED <<fs, fobj, calls>>

Next ==
    \/ MakeDir
    \/ OpenClose
    \/ Remove
    \/ RemoveDir

Spec == Init /\ [][Next]_vars

\* OmeroFS() on an empty server, then makedir('/a')
InitIO ==
    LET r == __init__(EmptyStore, << >>, TRUE, DEFAULT_NS)
        m == makedir(r.s, r.val, <<"a">>, FALSE)
    IN  /\ tags = m.s.tags /\ aalinks = m.s.aalinks
        /\ files = m.s.files /\ falinks = m.s.falinks
        /\ fs = r.val
        /\ fobj = NoHandle
        /\ calls = NoCalls
        /\ last = Call("makedir", NoVal(m))

OpenBin ==
    \E path \in RawPaths, mode \in Modes :
        LET r == openbin(Store, fs, path, mode)
        IN  /\ ~HandleOpen
            /\ \A f \in r.s.files : f.id \in IOFileIds
            /\ SetStore(r.s)
            /\ fobj' = r.h
            /\ last' = Call("openbin", r)
            /\ UNCHANGED <<fs, calls>>

Read ==
    \E n \in -1..MaxSize :
        LET r == read(Store, fobj, n)
        IN  /\ HandleOpen
            /\ fobj' = r.h
            /\ last' = Call("read", r)
            /\ UNCHANGED <<tags, aalinks, files, falinks, fs, calls>>

Write ==
    \E buf \in ByteStrings :
        LET r == write(Store, fobj, buf)
        IN  /\ HandleOpen
            /\ fobj.pos + Len(buf) <= MaxSize
            /\ SetStore(r.s)
            /\ fobj' = r.h
            /\ last' = Call("write", NoVal(r))
            /\ UNCHANGED <<fs, calls>>

Truncate ==
    \E size \in -1..MaxSize :
        LET r == truncate(Store, fobj, size)
        IN  /\ HandleOpen
            /\ SetStore(r.s)
            /\ fobj' = r.h
            /\ last' = Call("truncate", NoVal(r))
            /\ UNCHANGED <<fs, calls>>

Seek ==
    \E n \in 0..MaxSize :
        LET r == seek(Store, fobj, n, 0)
        IN  /\ HandleOpen
            /\ fobj' = r.h
            /\ last' = Call("seek", NoVal(r))
            /\ UNCHANGED <<tags, aalinks, files, falinks, fs, calls>>

Close ==
    /\ HandleOpen
    /\ fobj' = NoHandle
    /\ last' = [op |-> "close", err |-> "ok", val |-> << >>]
    /\ UNCHANGED <<tags, aalinks, files, falinks, fs, calls>>

NextIO ==
    \/ OpenBin
    \/ Read
    \/ Write
    \/ Truncate
    \/ Seek
    \/ Close
    \/ Remove

SpecIO == InitIO /\ [][NextIO]_vars

----------------------------------------------------------------------------
(* The vocabulary of the claims: what the store holds at a validated path *)

\* the Directory Markers of the instance's namespace at path p
MarkersAt(s, p) == {t \in s.tags : t.ns = fs.ns /\ t.textValue = p}

HasDir(s, p) == MarkersAt(s, p) # {}

\* the File Entries at path p: files named as p's last piece and linked to a
\* marker of p's parent path
FilesAt(s, p) ==
    IF p = << >> THEN {}
    ELSE {f \in s.files :
            /\ f.name = p[Len(p)]
            /\ \E t \in MarkersAt(s, SubSeq(p, 1, Len(p) - 1)) :
                   [parent |-> f.id, child |-> t.id] \in s.falinks}

HasFile(s, p) == FilesAt(s, p) # {}

Parent(p) == IF p = << >> THEN << >> ELSE SubSeq(p, 1, Len(p) - 1)

\* a marker of p has a sub-directory marker or a file linked to it
HasChild(s, p) ==
    \E t \in MarkersAt(s, p) :
        \/ \E l \in s.aalinks : l.parent = t.id
        \/ \E l \in s.falinks : l.child = t.id

StoreNext == [tags |-> tags', aalinks |-> aalinks', files |-> files', falinks |-> falinks']

----------------------------------------------------------------------------
(* Claims about directories and files, checked under Spec *)

\* C1: no path has both a Directory Marker and a File Entry, after any
\* sequence of makedir, openbin, remove and removedir by one instance.
C1_NoCollision ==
    \A p \in Paths : ~(HasDir(Store, p) /\ HasFile(Store, p))

\* C2: the Directory Marker of the configured root exists in every reachable
\* state of an instance constructed with create=True.
C2_RootMarkerKept == HasDir(Store, fs.root)

\* C3 as stated: removedir on any directory with a child raises
\* DirectoryNotEmpty and leaves the store unchanged.
C3_NonEmptyAlwaysNotEmpty ==
    \A path \in RawPaths, cascade \in BOOLEAN :
        LET p == validatepath(path)
            r == removedir(Store, fs, path, cascade)
        IN  (HasDir(Store, p) /\ HasChild(Store, p))
                => (r.err = "DirectoryNotEmpty" /\ r.s = Store)

\* C3 as amended: removedir on a directory with a child leaves the store
\* unchanged, and raises DirectoryNotEmpty unless the directory is the
\* configured root, for which it raises RemoveRootError.
C3_NonEmptyRefused ==
    \A path \in RawPaths, cascade \in BOOLEAN :
        LET p == validatepath(path)
            r == removedir(Store, fs, path, cascade)
        IN  (HasDir(Store, p) /\ HasChild(Store, p))
                => /\ r.s = Store
                   /\ r.err = IF p = fs.root THEN "RemoveRootError"
                              ELSE "DirectoryNotEmpty"

\* removedir has just refused a non-empty directory that is not the root
C3_Witness ==
    /\ last.op = "removedir" /\ last.err = "DirectoryNotEmpty"
    /\ \E p \in Paths \ {fs.root} : HasDir(Store, p) /\ HasChild(Store, p)

\* C4: makedir on a path that has a Directory Marker raises DirectoryExists
\* without recreate and succeeds with recreate; the store is unchanged in
\* both cases.
C4_MakedirExisting ==
    \A path \in RawPaths, recreate \in BOOLEAN :
        LET r == makedir(Store, fs, path, recreate)
        IN  HasDir(Store, validatepath(path))
                => /\ r.err = IF recreate THEN "ok" ELSE "DirectoryExists"
                   /\ r.s = Store

\* makedir has just refused an existing non-root directory
C4_Witness ==
    /\ last.op = "makedir" /\ last.err = "DirectoryExists"
    /\ \E p \in Paths \ {fs.root} : HasDir(Store, p)

\* what makedir on path must do when the marker of the parent exists: one new
\* marker with the validated path, linked to the parent's marker, and nothing
\* else; resolving the path as a directory then returns that marker
CreatedOneMarker(r, path) ==
    LET p == validatepath(path)
    IN  /\ r.err = "ok"
        /\ \E d \in r.s.tags \ tags :
              /\ r.s.tags = tags \cup {d}
              /\ d.textValue = p /\ d.ns = fs.ns
              /\ \E t \in MarkersAt(Store, Parent(p)) :
                    r.s.aalinks = aalinks \cup {[parent |-> t.id, child |-> d.id]}
              /\ _get_dir(r.s, fs, path, TRUE, TRUE) = Found(d)
        /\ r.s.files = files /\ r.s.falinks = falinks

\* C5 as stated: makedir on a path without marker raises ResourceNotFound
\* and creates nothing when the parent's marker is missing, and creates
\* exactly one linked marker when it exists.
C5_MissingParentNotFound ==
    \A path \in RawPaths, recreate \in BOOLEAN :
        LET p == validatepath(path)
            r == makedir(Store, fs, path, recreate)
        IN  ~HasDir(Store, p)
                => IF HasDir(Store, Parent(p))
                   THEN CreatedOneMarker(r, path)
                   ELSE r.err = "ResourceNotFound" /\ r.s = Store

\* C5 as amended: with the parent's marker missing makedir creates nothing
\* and raises ResourceNotFound, or DirectoryExpected when the parent path is
\* a File Entry; with the parent's marker present it creates exactly one
\* linked marker, which resolving the path then returns.
C5_MakedirAbsent ==
    \A path \in RawPaths, recreate \in BOOLEAN :
        LET p == validatepath(path)
            r == makedir(Store, fs, path, recreate)
        IN  ~HasDir(Store, p)
                => IF HasDir(Store, Parent(p))
                   THEN CreatedOneMarker(r, path)
                   ELSE /\ r.s = Store
                        /\ r.err = IF HasFile(Store, Parent(p))
                                   THEN "DirectoryExpected"
                                   ELSE "ResourceNotFound"

\* makedir has just created /a/b under /a
C5_Witness ==
    /\ last.op = "makedir" /\ last.err = "ok"
    /\ \E t \in MarkersAt(Store, <<"a">>), d \in MarkersAt(Store, <<"a", "b">>) :
          [parent |-> t.id, child |-> d.id] \in aalinks

\* C7: once the last child of a directory other than the root has been
\* removed (by remove or removedir), removedir on that directory succeeds.
C7_TeardownSucceeds ==
    [][\A p \in Paths \ {fs.root} :
          (HasDir(Store, p) /\ HasChild(Store, p) /\ ~HasChild(StoreNext, p))
              => \A cascade \in BOOLEAN :
                    removedir(StoreNext, fs, p, cascade).err = "ok"]_vars

\* C10: openbin's error outcomes.  A missing parent marker raises
\* ResourceNotFound in any mode; otherwise 'x' on a File Entry raises
\* FileExists, 'w', 'a' and 'x' on a Directory Marker raise FileExpected and
\* 'r' without a File Entry raises; the store is unchanged in each case.
C10_OpenbinErrors ==
    \A path \in RawPaths, mode \in Modes :
        LET p == validatepath(path)
            r == openbin(Store, fs, path, mode)
            creating == "r" \notin mode
        IN  IF ~HasDir(Store, Parent(p))
            THEN r.err = "ResourceNotFound" /\ r.s = Store
            ELSE /\ (creating /\ "x" \in mode /\ HasFile(Store, p) /\ ~HasDir(Store, p))
                       => (r.err = "FileExists" /\ r.s = Store)
                 /\ (creating /\ HasDir(Store, p))
                       => (r.err = "FileExpected" /\ r.s = Store)
                 /\ (~creating /\ ~HasFile(Store, p))
                       => (r.err # "ok" /\ r.s = Store)

----------------------------------------------------------------------------
(* Claims about the bytes of files, checked under SpecIO *)

\* openbin(path, 'w'), write(b), close(), openbin(path, 'r'), read(): the
\* first exception raised, and the bytes read
RoundTrip(s, path, b) ==
    LET o == openbin(s, fs, path, {"w"})
        w == write(o.s, o.h, b)
        o2 == openbin(w.s, fs, path, {"r"})
        rd == read(o2.s, o2.h, -1)
    IN  [err |-> IF o.err # "ok" THEN o.err
                 ELSE IF w.err # "ok" THEN w.err
                 ELSE IF o2.err # "ok" THEN o2.err
                 ELSE rd.err,
         val |-> rd.val]

\* C6 as stated: for every path whose parent directory exists and every byte
\* string b, writing b and reading it back returns exactly b.
C6_RoundTripAnyPath ==
    \A path \in RawPaths, b \in ByteStrings :
        HasDir(Store, Parent(validatepath(path)))
            => RoundTrip(Store, path, b) = [err |-> "ok", val |-> b]

\* C6 as amended: for every path whose parent directory exists and that is
\* not a directory itself, and every byte string b, writing b and reading it
\* back returns exactly b, whatever file was there before.
C6_RoundTrip ==
    \A path \in RawPaths, b \in ByteStrings :
        LET p == validatepath(path)
        IN  (HasDir(Store, Parent(p)) /\ (HasFile(Store, p) \/ ~HasDir(Store, p)))
                => RoundTrip(Store, path, b) = [err |-> "ok", val |-> b]

\* a handle opened with 'r' has just read back the two bytes of a file
C6_Witness ==
    /\ last.op = "read" /\ last.err = "ok" /\ last.val = <<1, 0>>
    /\ HandleOpen /\ ~fobj.writable /\ fobj.pos = 2

\* C8: truncate(size) on a writable handle.  Growing pads with zero bytes,
\* keeps the old bytes and the handle offset; otherwise the file is cut to
\* size bytes.
C8_Truncate ==
    (HandleOpen /\ fobj.writable) =>
        \A size \in 0..(MaxSize + 1) :
            LET old == FileOf(Store, fobj).data
                r == truncate(Store, fobj, size)
                new == FileOf(r.s, fobj).data
            IN  /\ r.err = "ok"
                /\ Len(new) = size
                /\ IF size > Len(old)
                   THEN /\ SubSeq(new, 1, Len(old)) = old
                        /\ \A i \in (Len(old) + 1)..size : new[i] = 0
                        /\ r.h.pos = fobj.pos
                   ELSE new = SubSeq(old, 1, size)

\* truncate has just grown a file holding a 1 by a zero byte, with the
\* handle offset before the new end
C8_Witness ==
    /\ last.op = "truncate" /\ last.err = "ok"
    /\ HandleOpen /\ fobj.writable /\ fobj.pos = 0
    /\ FileOf(Store, fobj).data = <<1, 0>>

\* C9: the position openbin leaves the handle at.  'w' on an existing file:
\* size 0, offset 0.  'a' on an existing file: content unchanged, offset at
\* the end, and the first write appends.  'x' on a path with no File Entry:
\* when it opens (it does so when the parent exists and the path is no
\* directory), the file is empty and the offset 0.
C9_OpenPosition ==
    \A path \in RawPaths, plus \in {{}, {"+"}} :
        LET p == validatepath(path)
            w == openbin(Store, fs, path, {"w"} \cup plus)
            a == openbin(Store, fs, path, {"a"} \cup plus)
            x == openbin(Store, fs, path, {"x"} \cup plus)
        IN  /\ HasFile(Store, p) =>
                /\ w.err = "ok"
                /\ FileOf(w.s, w.h) \in FilesAt(w.s, p)
                /\ FileOf(w.s, w.h).data = << >> /\ w.h.pos = 0
                /\ a.err = "ok" /\ a.s = Store
                /\ FileOf(a.s, a.h) \in FilesAt(Store, p)
                /\ a.h.pos = Len(FileOf(a.s, a.h).data)
                /\ \A buf \in ByteStrings :
                      LET wr == write(a.s, a.h, buf)
                      IN  FileOf(wr.s, a.h).data = FileOf(Store, a.h).data \o buf
            /\ ~HasFile(Store, p) =>
                /\ (HasDir(Store, Parent(p)) /\ ~HasDir(Store, p)) => x.err = "ok"
                /\ x.err = "ok" =>
                      /\ FileOf(x.s, x.h) \in FilesAt(x.s, p)
                      /\ FileOf(x.s, x.h).data = << >> /\ x.h.pos = 0

\* openbin has just opened a file of two bytes at its end
C9_Witness ==
    /\ last.op = "openbin" /\ last.err = "ok"
    /\ HandleOpen /\ fobj.pos = 2 /\ Len(FileOf(Store, fobj).data) = 2


----------------------------------------------------------------------------
(* Handle permissions *)

readable(h) == h.readable

writable(h) == h.writable

seekable(h) == TRUE

\* C11: a handle from openbin is readable iff the mode has 'r' or '+' and
\* writable iff it has 'w', 'a', 'x' or '+'; read on a non-readable handle
\* and write or truncate on a non-writable one raise PermissionError and
\* leave the store and the handle (its offset included) as they were;
\* readable() and writable() report the flags, seekable() is always true.
C11_Permissions ==
    /\ \A path \in RawPaths, mode \in Modes :
         LET r == openbin(Store, fs, path, mode)
         IN  r.err = "ok" =>
               /\ readable(r.h) = ("r" \in mode \/ "+" \in mode)
               /\ writable(r.h) = (mode \cap {"w", "a", "x", "+"} # {})
               /\ seekable(r.h)
    /\ HandleOpen =>
         /\ seekable(fobj)
         /\ ~readable(fobj) =>
              \A n \in -1..MaxSize :
                  read(Store, fobj, n) = HRaise("PermissionError", Store, fobj)
         /\ ~writable(fobj) =>
              /\ \A buf \in ByteStrings :
                     write(Store, fobj, buf) = HRaise("PermissionError", Store, fobj)
              /\ \A size \in -1..MaxSize :
                     truncate(Store, fobj, size) = HRaise("PermissionError", Store, fobj)
    /\ (last.op \in {"read", "write", "truncate"} /\ last.err # "ok") =>
         last.err = "PermissionError"

C11_Witness ==
    /\ last.op = "read" /\ last.err = "PermissionError"
    /\ HandleOpen /\ ~readable(fobj) /\ writable(fobj)
    /\ Len(FileOf(Store, fobj).data) > 0


----------------------------------------------------------------------------
(* Queries.  SpecQ is Spec with a caller that also asks getinfo and listdir *)

\* getinfo that answers with the directory when a file has the same path
getinfo_prefer_dir(s, self, path) ==
    LET sb == _split_basename(path)
        dir == _get_dir(s, self, path, FALSE, FALSE)
        file == _get_file(s, self, path, FALSE, FALSE)
    IN  IF dir.err # "ok" THEN Raise(dir.err, s)
        ELSE IF dir.val # None
        THEN Ok(s, [name |-> sb.basename, is_dir |-> TRUE, created |-> 0,
                    modified |-> 0, size |-> 0, type |-> "directory"])
        ELSE IF file.err # "ok" THEN Raise(file.err, s)
        ELSE IF file.val = None THEN Raise("ResourceNotFound", s)
        ELSE Ok(s, [name |-> sb.basename, is_dir |-> FALSE,
                    created |-> file.val.ctime \div 1000,
                    modified |-> file.val.mtime \div 1000,
                    size |-> Len(file.val.data), type |-> "file"])

\* the times of the creation events are not kept in the store: a directory's
\* created, and a file's created when its ctime is unset, read 0
getinfo(s, self, path) ==
    LET sb == _split_basename(path)
        dir == _get_dir(s, self, path, FALSE, FALSE)
        file == _get_file(s, self, path, FALSE, FALSE)
    IN  IF dir.err # "ok" THEN Raise(dir.err, s)
        ELSE IF file.err # "ok" THEN Raise(file.err, s)
        ELSE IF dir.val # None /\ file.val # None THEN Raise("ResourceError", s)
        ELSE IF dir.val = None /\ file.val = None THEN Raise("ResourceNotFound", s)
        ELSE IF dir.val # None
        THEN Ok(s, [name |-> sb.basename, is_dir |-> TRUE, created |-> 0,
                    modified |-> 0, size |-> 0, type |-> "directory"])
        ELSE Ok(s, [name |-> sb.basename, is_dir |-> FALSE,
                    created |-> file.val.ctime \div 1000,
                    modified |-> file.val.mtime \div 1000,
                    size |-> Len(file.val.data), type |-> "file"])

GetInfo ==
    \E path \in RawPaths :
        LET r == getinfo(Store, fs, path)
        IN  /\ SetStore(r.s)
            /\ last' = Call("getinfo", r)
            /\ UNCHANGED <<fs, fobj, calls>>

ListDir ==
    \E path \in RawPaths :
        LET r == listdir(Store, fs, path)
        IN  /\ SetStore(r.s)
            /\ last' = Call("listdir", r)
            /\ UNCHANGED <<fs, fobj, calls>>

NextQ ==
    \/ MakeDir
    \/ OpenClose
    \/ Remove
    \/ RemoveDir
    \/ GetInfo
    \/ ListDir

SpecQ == Init /\ [][NextQ]_vars

\* C12: getinfo(p) reports a directory (is_dir, size 0) when only a Directory
\* Marker is at p, a file (not is_dir, the file's size) when only a File
\* Entry is at p, raises ResourceNotFound when neither is there and
\* ResourceError when both are; it never modifies the store.
C12_GetInfo ==
    \A path \in RawPaths :
        LET p == validatepath(path)
            r == getinfo(Store, fs, path)
        IN  /\ r.s = Store
            /\ (HasDir(Store, p) /\ ~HasFile(Store, p)) =>
                  (r.err = "ok" /\ r.val.is_dir /\ r.val.size = 0)
            /\ (HasFile(Store, p) /\ ~HasDir(Store, p)) =>
                  /\ r.err = "ok" /\ ~r.val.is_dir
                  /\ \E f \in FilesAt(Store, p) : r.val.size = Len(f.data)
            /\ (~HasDir(Store, p) /\ ~HasFile(Store, p)) => r.err = "ResourceNotFound"
            /\ (HasDir(Store, p) /\ HasFile(Store, p)) => r.err = "ResourceError"

C12_Witness ==
    /\ last.op = "getinfo" /\ last.err = "ResourceError"
    /\ \E p \in Paths : HasDir(Store, p) /\ HasFile(Store, p)


\* the direct children of p that the store holds: the markers one piece
\* below p and the files under p
Children(s, p) ==
    {[kind |-> "dir", name |-> n] : n \in {n \in Names : HasDir(s, Append(p, n))}}
    \cup {[kind |-> "file", name |-> n] : n \in {n \in Names : HasFile(s, Append(p, n))}}

Listed(r) == {[kind |-> e.kind, name |-> e.name] : e \in r.val}

\* the part of C13 about one listing
C13_ListingIsChildren ==
    \A path \in RawPaths :
        LET p == validatepath(path)
            r == listdir(Store, fs, path)
        IN  /\ r.s = Store
            /\ HasDir(Store, p) =>
                  /\ r.err = "ok"
                  /\ Listed(r) = Children(Store, p)
                  /\ Cardinality(r.val) = Cardinality(Children(Store, p))
            /\ ~HasDir(Store, p) =>
                  r.err = IF HasFile(Store, p) THEN "DirectoryExpected"
                          ELSE "ResourceNotFound"

\* C13: listdir(p) on an existing directory returns exactly the direct
\* children of p, one name for every directory made under p and one for
\* every file created under p that has not been removed since: a directory
\* leaves the listings only when removedir is called on it, a file only when
\* remove is called on it.  listdir on a path with no marker raises
\* ResourceNotFound, or DirectoryExpected if a file is there.
C13_ListDir ==
    /\ C13_ListingIsChildren
    /\ \A path \in RawPaths, cascade \in BOOLEAN :
         LET r == removedir(Store, fs, path, cascade)
         IN  \A q \in Paths :
                 /\ (HasDir(Store, q) /\ q # validatepath(path)) => HasDir(r.s, q)
                 /\ HasFile(Store, q) => HasFile(r.s, q)
    /\ \A path \in RawPaths :
         LET r == remove(Store, fs, path)
         IN  \A q \in Paths :
                 /\ HasDir(Store, q) => HasDir(r.s, q)
                 /\ (HasFile(Store, q) /\ q # validatepath(path)) => HasFile(r.s, q)


----------------------------------------------------------------------------
(* Two namespaces.  SpecNS is two OmeroFS instances on one server, each   *)
(* with a namespace of its own as make_fs of the tests builds them; fs is *)
(* the instance that made the last call.                                  *)

OTHER_NS == "uuid4"

Instances == {[ns |-> DEFAULT_NS, root |-> << >>], [ns |-> OTHER_NS, root |-> << >>]}

NsBufs == {<<0>>, <<1>>}

\* the root and one path below it, also written with a trailing slash
NsPaths == {<< >>, <<"a">>, <<"a", "">>}

TagsOf(s, self) == {t \in s.tags : t.ns = self.ns}

\* the files linked to a marker of the instance's namespace
FilesOf(s, self) ==
    {f \in s.files : \E l \in s.falinks, t \in TagsOf(s, self) :
                         l.parent = f.id /\ l.child = t.id}

\* with fs.openbin(path, 'w') as f: f.write(buf)
WriteFile(s, self, path, buf) ==
    LET o == openbin(s, self, path, {"w"})
        w == write(o.s, o.h, buf)
    IN  IF o.err # "ok" THEN Raise(o.err, o.s) ELSE Raise(w.err, w.s)

\* with fs.openbin(path, 'r') as f: f.read()
ReadFile(s, self, path) ==
    LET o == openbin(s, self, path, {"r"})
        rd == read(o.s, o.h, -1)
    IN  IF o.err # "ok" THEN Raise(o.err, o.s)
        ELSE [err |-> rd.err, val |-> rd.val, s |-> rd.s]

InitNS ==
    LET a == __init__(EmptyStore, << >>, TRUE, DEFAULT_NS)
        b == __init__(a.s, << >>, TRUE, OTHER_NS)
    IN  /\ tags = b.s.tags /\ aalinks = b.s.aalinks
        /\ files = b.s.files /\ falinks = b.s.falinks
        /\ fs = b.val
        /\ fobj = NoHandle
        /\ calls = NoCalls
        /\ last = Call("__init__", NoVal(b))

NsMakeDir ==
    \E self \in Instances, path \in NsPaths, recreate \in BOOLEAN :
        LET r == makedir(Store, self, path, recreate)
        IN  /\ Cardinality(TagsOf(r.s, self)) < MaxTags
            /\ SetStore(r.s)
            /\ fs' = self
            /\ last' = Call("makedir", NoVal(r))
            /\ UNCHANGED <<fobj, calls>>

NsWriteFile ==
    \E self \in Instances, path \in NsPaths, buf \in NsBufs :
        LET r == WriteFile(Store, self, path, buf)
        IN  /\ Cardinality(FilesOf(r.s, self)) <= MaxFiles
            /\ SetStore(r.s)
            /\ fs' = self
            /\ last' = Call("write", NoVal(r))
            /\ UNCHANGED <<fobj, calls>>

NsRemove ==
    \E self \in Instances, path \in NsPaths :
        LET r == remove(Store, self, path)
        IN  /\ SetStore(r.s)
            /\ fs' = self
            /\ last' = Call("remove", NoVal(r))
            /\ UNCHANGED <<fobj, calls>>

NsRemoveDir ==
    \E self \in Instances, path \in NsPaths, cascade \in BOOLEAN :
        LET r == removedir(Store, self, path, cascade)
        IN  /\ SetStore(r.s)
            /\ fs' = self
            /\ last' = Call("removedir", NoVal(r))
            /\ UNCHANGED <<fobj, calls>>

NextNS ==
    \/ NsMakeDir
    \/ NsWriteFile
    \/ NsRemove
    \/ NsRemoveDir

SpecNS == InitNS /\ [][NextNS]_vars

\* what an instance sees at every path: the answers of getinfo and listdir
\* and the bytes openbin and read return
View(s, self) ==
    [path \in NsPaths |->
        LET g == getinfo(s, self, path)
            l == listdir(s, self, path)
            o == ReadFile(s, self, path)
        IN  [info |-> [err |-> g.err, val |-> g.val],
             list |-> [err |-> l.err, val |-> IF l.err = "ok" THEN Listed(l) ELSE l.val],
             data |-> [err |-> o.err, val |-> o.val]]]

\* C14: with two instances of different namespaces on one server, no
\* operation of one instance (construction, makedir, openbin in any mode,
\* writing, setinfo, remove, removedir) changes what getinfo, listdir and
\* openbin-read answer through the other instance on any path.
C14_NamespaceIsolation ==
    \A a \in Instances, b \in Instances :
        a # b =>
            LET before == View(Store, b)
            IN  \A path \in NsPaths :
                  /\ \A root \in Roots :
                         View(__init__(Store, root, TRUE, a.ns).s, b) = before
                  /\ \A recreate \in BOOLEAN :
                         View(makedir(Store, a, path, recreate).s, b) = before
                  /\ \A mode \in TreeModes :
                         View(openbin(Store, a, path, mode).s, b) = before
                  /\ \A buf \in NsBufs :
                         View(WriteFile(Store, a, path, buf).s, b) = before
                  /\ \A info \in [modified : Times, created : Times] :
                         View(setinfo(Store, a, path, info).s, b) = before
                  /\ View(remove(Store, a, path).s, b) = before
                  /\ \A cascade \in BOOLEAN :
                         View(removedir(Store, a, path, cascade).s, b) = before

\* both instances hold a file at /a with different bytes, and the instance
\* of the last call has just written its own
C14_Witness ==
    /\ last.op = "write" /\ last.err = "ok"
    /\ \A self \in Instances : ReadFile(Store, self, <<"a">>).err = "ok"
    /\ \E a \in Instances, b \in Instances :
           ReadFile(Store, a, <<"a">>).val # ReadFile(Store, b, <<"a">>).val


----------------------------------------------------------------------------
(* Concurrent callers.  SpecRace is two callers of instances that share   *)
(* one namespace; every query and every save is one call to the server,  *)
(* so another caller's calls may come between the checks of makedir or   *)
(* openbin and the creation that follows them.                           *)

RacePaths == {<<"a">>, <<"a", "">>, <<"a", "b">>}

RaceModes == {{"w"}, {"x"}}

\* makedir up to the creation: val is the creation still to be made, or None
makedir_check(s, self, path, recreate) ==
    LET vpath == validatepath(path)
        sb == _split_basename(path)
        d == _get_dir(s, self, path, FALSE, TRUE)
    IN  IF d.err # "ok" THEN Thrown(d.err)
        ELSE IF d.val # None
        THEN IF ~recreate THEN Thrown("DirectoryExists") ELSE Found(None)
        ELSE LET parent == _get_dir(s, self, sb.dirname, TRUE, TRUE)
             IN  IF parent.err # "ok" THEN Thrown(parent.err)
                 ELSE Found([op |-> "makedir", vpath |-> vpath, parent |-> parent.val])

\* the creation that waits for a lock on the path and looks again
makedir_create_locked(s, self, call) ==
    IF \E t \in s.tags : t.ns = self.ns /\ t.textValue = call.vpath THEN s
    ELSE [s EXCEPT !.tags = @ \cup {[id |-> FreshId(s.tags), ns |-> self.ns,
                                     textValue |-> call.vpath]},
                   !.aalinks = @ \cup {[parent |-> call.parent.id,
                                        child |-> FreshId(s.tags)]}]

makedir_create(s, self, call) == _create_tag(s, self, call.vpath, call.parent)

\* openbin in a mode other than r up to the creation: val is the creation
\* still to be made, or the file found
openbin_check(s, self, path, mode) ==
    LET sb == _split_basename(path)
        parent == _get_dir(s, self, sb.dirname, FALSE, TRUE)
    IN  IF parent.err # "ok" THEN Thrown(parent.err)
        ELSE IF parent.val = None THEN Thrown("ResourceNotFound")
        ELSE LET f == _get_file(s, self, path, FALSE, TRUE)
             IN  IF f.err # "ok" THEN Thrown(f.err)
                 ELSE IF f.val # None
                 THEN IF "x" \in mode THEN Thrown("FileExists")
                      ELSE Found([op |-> "openfile", f |-> f.val, mode |-> mode])
                 ELSE LET d == _get_dir(s, self, path, FALSE, TRUE)
                      IN  IF d.err # "ok" THEN Thrown(d.err)
                          ELSE IF d.val # None THEN Thrown("FileExpected")
                          ELSE Found([op |-> "openbin", basename |-> sb.basename,
                                      dirname |-> sb.dirname, parent |-> parent.val,
                                      mode |-> mode])

\* f.save(), f.linkAnnotation(parent) and the opening of the new file
openbin_create(s, self, call) ==
    LET new == [id |-> FreshId(s.files), name |-> call.basename,
                path |-> call.dirname, data |-> << >>, mtime |-> 0, ctime |-> 0]
        s1 == [s EXCEPT !.files = @ \cup {new},
                        !.falinks = @ \cup {[parent |-> new.id,
                                             child |-> call.parent.id]}]
    IN  open_write(s1, new, call.mode)

RaceInit ==
    LET r == __init__(EmptyStore, << >>, TRUE, DEFAULT_NS)
    IN  /\ tags = r.s.tags /\ aalinks = r.s.aalinks
        /\ files = r.s.files /\ falinks = r.s.falinks
        /\ fs = r.val
        /\ fobj = NoHandle
        /\ calls = NoCalls
        /\ last = Call("__init__", NoVal(r))

RaceMakeDirCheck ==
    \E c \in Callers, path \in RacePaths, recreate \in BOOLEAN :
        LET r == makedir_check(Store, fs, path, recreate)
        IN  /\ calls[c] = Idle
            /\ calls' = IF r.err = "ok" /\ r.val # None
                        THEN [calls EXCEPT ![c] = r.val] ELSE calls
            /\ last' = IF r.err = "ok" /\ r.val # None THEN last
                       ELSE [op |-> "makedir", err |-> r.err, val |-> << >>]
            /\ UNCHANGED <<tags, aalinks, files, falinks, fs, fobj>>

RaceMakeDirCreate ==
    \E c \in Callers :
        /\ calls[c].op = "makedir"
        /\ LET s == makedir_create(Store, fs, calls[c])
           IN  /\ Cardinality(s.tags) <= MaxTags
               /\ SetStore(s)
        /\ calls' = [calls EXCEPT ![c] = Idle]
        /\ last' = [op |-> "makedir", err |-> "ok", val |-> << >>]
        /\ UNCHANGED <<fs, fobj>>

\* the file found is opened (and truncated in mode w) with no creation
RaceOpenCheck ==
    \E c \in Callers, path \in RacePaths, mode \in RaceModes :
        LET r == openbin_check(Store, fs, path, mode)
        IN  /\ calls[c] = Idle
            /\ IF r.err = "ok" /\ r.val.op = "openbin"
               THEN /\ calls' = [calls EXCEPT ![c] = r.val]
                    /\ UNCHANGED <<tags, aalinks, files, falinks, last>>
               ELSE /\ IF r.err = "ok"
                       THEN SetStore(open_write(Store, r.val.f, mode).s)
                       ELSE UNCHANGED <<tags, aalinks, files, falinks>>
                    /\ last' = [op |-> "openbin", err |-> r.err, val |-> << >>]
                    /\ UNCHANGED calls
            /\ UNCHANGED <<fs, fobj>>

RaceOpenCreate ==
    \E c \in Callers :
        /\ calls[c].op = "openbin"
        /\ LET r == openbin_create(Store, fs, calls[c])
           IN  /\ Cardinality(r.s.files) <= MaxFiles + 1
               /\ SetStore(r.s)
        /\ calls' = [calls EXCEPT ![c] = Idle]
        /\ last' = [op |-> "openbin", err |-> "ok", val |-> << >>]
        /\ UNCHANGED <<fs, fobj>>

NextRace ==
    \/ RaceMakeDirCheck
    \/ RaceMakeDirCreate
    \/ RaceOpenCheck
    \/ RaceOpenCreate

SpecRace == RaceInit /\ [][NextRace]_vars

\* C15: nothing stands between the existence check and the creation.  A call
\* alone on the server is makedir or openbin as a whole; a creation whose
\* check has passed is made whatever the store holds by then, so it adds a
\* second Directory Marker, or a second File Entry, to a path that another
\* caller has created in between.
C15_CreateAfterCheck ==
    /\ \A path \in RacePaths :
         /\ \A recreate \in BOOLEAN :
              LET k == makedir_check(Store, fs, path, recreate)
                  m == makedir(Store, fs, path, recreate)
              IN  /\ k.err = m.err
                  /\ m.s = IF k.err = "ok" /\ k.val # None
                           THEN makedir_create(Store, fs, k.val) ELSE Store
         /\ \A mode \in RaceModes :
              LET k == openbin_check(Store, fs, path, mode)
                  o == openbin(Store, fs, path, mode)
              IN  /\ k.err = o.err
                  /\ (k.err = "ok" /\ k.val.op = "openbin")
                         => o.s = openbin_create(Store, fs, k.val).s
    /\ \A c \in Callers :
         /\ calls[c].op = "makedir" =>
              LET p == calls[c].vpath
              IN  Cardinality(MarkersAt(makedir_create(Store, fs, calls[c]), p))
                      = Cardinality(MarkersAt(Store, p)) + 1
         /\ calls[c].op = "openbin" =>
              LET p == Append(calls[c].dirname, calls[c].basename)
              IN  Cardinality(FilesAt(openbin_create(Store, fs, calls[c]).s, p))
                      = Cardinality(FilesAt(Store, p)) + 1

\* two File Entries and two Directory Markers for the path /a
C15_Witness ==
    /\ Cardinality(MarkersAt(Store, <<"a">>)) = 2
    /\ Cardinality(FilesAt(Store, <<"a">>)) = 2
    /\ last.op = "makedir" /\ last.err = "ok"


----------------------------------------------------------------------------
(* Timestamps.  SpecInfo is one instance whose caller creates files under *)
(* / and /a, sets their times and asks for them.                          *)

Infos == [modified : Times, created : Times]

\* info without details.modified and details.created
NoTimes == [modified |-> 0, created |-> 0]

SetInfo ==
    \E path \in RawPaths, info \in Infos :
        LET r == setinfo(Store, fs, path, info)
        IN  /\ SetStore(r.s)
            /\ last' = Call("setinfo", NoVal(r))
            /\ UNCHANGED <<fs, fobj, calls>>

NextInfo ==
    \/ OpenClose
    \/ SetInfo
    \/ GetInfo
    \/ Remove

SpecInfo == InitIO /\ [][NextInfo]_vars

----------------------------------------------------------------------------
(* Removing files *)

\* what C17 says of remove(path) in the store s
RemoveAsClaimed(s, path) ==
    LET p == validatepath(path)
        r == remove(s, fs, path)
    IN  /\ HasFile(s, p) =>
              /\ r.err = "ok"
              /\ r.s.tags = s.tags /\ r.s.aalinks = s.aalinks
              /\ Cardinality(s.files \ r.s.files) = 1
              /\ s.files \ r.s.files = FilesAt(s, p)
              /\ r.s.files \subseteq s.files
              /\ getinfo(r.s, fs, path).err = "ResourceNotFound"
              /\ LET l == listdir(r.s, fs, Parent(p))
                 IN  l.err = "ok" /\ \A e \in l.val : e.name # p[Len(p)]
        /\ (~HasFile(s, p) /\ p # << >>) =>
              /\ r.err = IF HasDir(s, p) THEN "FileExpected" ELSE "ResourceNotFound"
              /\ r.s = s

\* C17: remove(p) on a path with a File Entry deletes exactly that File
\* Entry, after which getinfo(p) raises ResourceNotFound and listdir of the
\* parent has not its name, and leaves every marker and every other file
\* unchanged; on a path with no File Entry it raises ResourceNotFound, or
\* FileExpected when a directory is there, and changes nothing.
C17_Remove == \A path \in RawPaths : RemoveAsClaimed(Store, path)


----------------------------------------------------------------------------
(* One object per path *)

\* at most one Directory Marker per (namespace, path) and at most one File
\* Entry per (parent marker, name)
Unique(s) ==
    /\ \A t \in s.tags, u \in s.tags :
           (t.ns = u.ns /\ t.textValue = u.textValue) => t = u
    /\ \A t \in s.tags, f \in s.files, g \in s.files :
           ( /\ [parent |-> f.id, child |-> t.id] \in s.falinks
             /\ [parent |-> g.id, child |-> t.id] \in s.falinks
             /\ f.name = g.name ) => f = g

----------------------------------------------------------------------------
(* Ambiguous paths *)

\* more than one Directory Marker, or more than one File Entry, at p
Ambiguous(s, p) ==
    \/ Cardinality(MarkersAt(s, p)) > 1
    \/ Cardinality(FilesAt(s, p)) > 1

Refused(r) == r.err = "ResourceError" /\ r.s = Store

\* C19: whenever the store holds more than one Directory Marker, or more
\* than one File Entry, for a path, every operation that resolves the path
\* (getinfo, listdir, makedir, openbin, remove, removedir) raises
\* ResourceError and changes nothing.
C19_NeverResolved ==
    \A path \in RacePaths :
        Ambiguous(Store, validatepath(path)) =>
            /\ Refused(getinfo(Store, fs, path))
            /\ Refused(listdir(Store, fs, path))
            /\ \A recreate \in BOOLEAN : Refused(makedir(Store, fs, path, recreate))
            /\ \A mode \in Modes : Refused(openbin(Store, fs, path, mode))
            /\ Refused(remove(Store, fs, path))
            /\ \A cascade \in BOOLEAN : Refused(removedir(Store, fs, path, cascade))


----------------------------------------------------------------------------
(* Reading lines.  SpecLines is a caller who holds a handle with a buffer *)
(* size of its choice on a file of any content, at any offset, and reads *)
(* the file line by line.                                                *)

MaxLine == 3      \* bytes of the file that is read by lines, and of the buffer

NL == 10          \* b'\n'

LineBytes == {0, NL}

\* buf.find(b): the index from 0 of the first b in buf, -1 without one
find(buf, b) ==
    IF \E i \in 1..Len(buf) : buf[i] = b
    THEN (CHOOSE i \in 1..Len(buf) :
              buf[i] = b /\ \A j \in 1..(i - 1) : buf[j] # b) - 1
    ELSE -1

\* the handle of OriginalFileObj(f, buf)
WithBufsize(h, buf) ==
    [fid |-> h.fid, pos |-> h.pos, readable |-> h.readable,
     writable |-> h.writable, bufsize |-> buf]

RECURSIVE readline_nostepback_loop(_, _, _, _)
readline_nostepback_loop(s, h, size, line) ==
    IF h.pos < rfs_size(s, h) /\ (size < 0 \/ Len(line) < size)
    THEN LET r == read(s, h, h.bufsize)
             eol == find(r.val, NL)
         IN  IF r.err # "ok" THEN r
             ELSE IF eol < 0
             THEN readline_nostepback_loop(r.s, r.h, size, line \o r.val)
             ELSE HOk(r.s, r.h, line \o SubSeq(r.val, 1, eol + 1))
    ELSE HOk(s, h, line)

\* readline without the self.pos -= ... of line 79
readline_nostepback(s, h, size) == readline_nostepback_loop(s, h, size, << >>)

\* the while loop of readline, entered with the bytes of line read so far
RECURSIVE readline_loop(_, _, _, _)
readline_loop(s, h, size, line) ==
    IF h.pos < rfs_size(s, h) /\ (size < 0 \/ Len(line) < size)
    THEN LET r == read(s, h, h.bufsize)
             buf == r.val
             eol == find(buf, NL)
         IN  IF r.err # "ok" THEN r
             ELSE IF eol < 0
             THEN readline_loop(r.s, r.h, size, line \o buf)
             ELSE HOk(r.s, [r.h EXCEPT !.pos = @ - (Len(buf) - eol - 1)],
                      line \o SubSeq(buf, 1, eol + 1))
    ELSE HOk(s, h, line)

\* size < 0 stands for the default size=-1
readline(s, h, size) == readline_loop(s, h, size, << >>)

__next__(s, h) ==
    IF h.pos < rfs_size(s, h) THEN readline(s, h, -1)
    ELSE HRaise("StopIteration", s, h)

\* list(iter(h)): what the generator __iter__ yields, at most n chunks
RECURSIVE __iter__(_, _, _)
__iter__(s, h, n) ==
    IF n > 0 /\ h.pos < rfs_size(s, h)
    THEN LET r == readline(s, h, -1)
         IN  IF r.err # "ok" THEN << >> ELSE <<r.val>> \o __iter__(r.s, r.h, n - 1)
    ELSE << >>

\* the file /a of the given bytes, as openbin('/a', 'w') and write leave it
LineFile(data) ==
    [id |-> 1, name |-> "a", path |-> << >>, data |-> data, mtime |-> 0, ctime |-> 0]

\* a server with the root and the file /a, and a handle opened on the file
\* with openbin('/a', 'r') and moved to the offset start
InitLines ==
    \E data \in SeqsUpTo(LineBytes, MaxLine), buf \in 1..MaxLine :
        \E start \in 0..Len(data) :
            /\ tags = {[id |-> 1, ns |-> DEFAULT_NS, textValue |-> << >>]}
            /\ aalinks = {}
            /\ files = {LineFile(data)}
            /\ falinks = {[parent |-> 1, child |-> 1]}
            /\ fs = [ns |-> DEFAULT_NS, root |-> << >>]
            /\ fobj = [WithBufsize(OriginalFileObj(LineFile(data), TRUE, FALSE), buf)
                          EXCEPT !.pos = start]
            /\ calls = NoCalls
            /\ last = [op |-> "seek", err |-> "ok", val |-> << >>]

ReadLine ==
    LET r == readline(Store, fobj, -1)
    IN  /\ fobj' = r.h
        /\ last' = Call("readline", r)
        /\ UNCHANGED <<tags, aalinks, files, falinks, fs, calls>>

NextLine ==
    LET r == __next__(Store, fobj)
    IN  /\ fobj' = r.h
        /\ last' = Call("__next__", r)
        /\ UNCHANGED <<tags, aalinks, files, falinks, fs, calls>>

NextLines ==
    \/ ReadLine
    \/ NextLine

SpecLines == InitLines /\ [][NextLines]_vars

\* the chunks of at most n successive readline() calls, up to the end of file
RECURSIVE Readlines(_, _, _)
Readlines(s, h, n) ==
    IF n > 0 /\ h.pos < rfs_size(s, h)
    THEN LET r == readline(s, h, -1)
         IN  <<r.val>> \o Readlines(r.s, r.h, n - 1)
    ELSE << >>

RECURSIVE Concat(_)
Concat(chunks) ==
    IF chunks = << >> THEN << >> ELSE Head(chunks) \o Concat(Tail(chunks))

\* C20: from any offset, for any buffer size and any content, readline()
\* returns the bytes of the file from the offset up to and with the next
\* terminator, or up to the end of the file without one, and leaves the
\* offset behind them; so the chunks of successive calls have at most one
\* terminator each, as their last byte, their concatenation is the content
\* from the start offset to the end of the file, and the offset after each
\* call is the start offset plus the bytes returned so far.  Iteration
\* yields the same chunks and stops at the end of the file.
C20_LinesPartition ==
    LET data == FileOf(Store, fobj).data
        size == Len(data)
        pos == fobj.pos
        r == readline(Store, fobj, -1)
        chunk == r.val
        chunks == Readlines(Store, fobj, MaxLine + 1)
    IN  /\ r.err = "ok" /\ r.s = Store
        /\ pos + Len(chunk) <= size
        /\ chunk = SubSeq(data, pos + 1, pos + Len(chunk))
        /\ r.h.pos = pos + Len(chunk)
        /\ \A i \in 1..Len(chunk) : chunk[i] = NL => i = Len(chunk)
        /\ pos < size => Len(chunk) > 0
        /\ (Len(chunk) > 0 /\ chunk[Len(chunk)] = NL) \/ r.h.pos = size
        /\ Concat(chunks) = SubSeq(data, pos + 1, size)
        /\ __iter__(Store, fobj, MaxLine + 1) = chunks
        /\ LET n == __next__(Store, fobj)
           IN  IF pos < size THEN n = r
               ELSE n = HRaise("StopIteration", Store, fobj)
        /\ (last.op = "readline" /\ last.val # << >>) =>
               last.val = SubSeq(data, pos - Len(last.val) + 1, pos)

\* a line longer than the buffer has been read, and a line without a
\* terminator is left
C20_Witness ==
    /\ last.op = "readline" /\ last.err = "ok"
    /\ Len(last.val) > fobj.bufsize
    /\ fobj.pos < rfs_size(Store, fobj)
    /\ find(SubSeq(FileOf(Store, fobj).data, fobj.pos + 1, rfs_size(Store, fobj)), NL) < 0


----------------------------------------------------------------------------
(* Size limits.  SpecSized is the caller of SpecLines who also gives *)
(* readline a size and readlines a hint.                              *)

\* the while loop of readlines, entered with the lines read so far and the
\* count c of their bytes
RECURSIVE readlines_loop(_, _, _, _, _)
readlines_loop(s, h, hint, lines, c) ==
    IF h.pos < rfs_size(s, h) /\ (hint < 0 \/ c < hint)
    THEN LET r == readline(s, h, hint)
         IN  IF r.err # "ok" THEN r
             ELSE readlines_loop(r.s, r.h, hint, Append(lines, r.val), c + Len(r.val))
    ELSE HOk(s, h, lines)

\* hint < 0 stands for the default hint=-1
readlines(s, h, hint) == readlines_loop(s, h, hint, << >>, 0)

ReadLineSize ==
    \E size \in 0..MaxLine :
        LET r == readline(Store, fobj, size)
        IN  /\ fobj' = r.h
            /\ last' = [op |-> "readline(size)", err |-> r.err,
                        val |-> [size |-> size, line |-> r.val]]
            /\ UNCHANGED <<tags, aalinks, files, falinks, fs, calls>>

ReadLinesHint ==
    \E hint \in 0..MaxLine :
        LET r == readlines(Store, fobj, hint)
        IN  /\ fobj' = r.h
            /\ last' = [op |-> "readlines(hint)", err |-> r.err,
                        val |-> [hint |-> hint, lines |-> r.val]]
            /\ UNCHANGED <<tags, aalinks, files, falinks, fs, calls>>

NextSized ==
    \/ ReadLine
    \/ ReadLineSize
    \/ ReadLinesHint

SpecSized == InitLines /\ [][NextSized]_vars

\* readline(size) returns the next bytes of the file and leaves the offset
\* behind them
SizedAdvances ==
    \A size \in 0..MaxLine :
        LET r == readline(Store, fobj, size)
        IN  /\ r.err = "ok" /\ r.s = Store
            /\ fobj.pos + Len(r.val) <= rfs_size(Store, fobj)
            /\ r.val = SubSeq(FileOf(Store, fobj).data, fobj.pos + 1, fobj.pos + Len(r.val))
            /\ r.h.pos = fobj.pos + Len(r.val)

\* readlines(hint) makes no further call of readline once the lines it has
\* hold hint bytes, and leaves the offset behind the bytes of its lines
HintStops ==
    \A hint \in 0..MaxLine :
        LET r == readlines(Store, fobj, hint)
            lines == r.val
        IN  /\ r.err = "ok" /\ r.s = Store
            /\ r.h.pos = fobj.pos + Len(Concat(lines))
            /\ Concat(lines) = SubSeq(FileOf(Store, fobj).data, fobj.pos + 1, r.h.pos)
            /\ lines # << >> =>
                   Len(Concat(SubSeq(lines, 1, Len(lines) - 1))) < hint
            /\ (Len(Concat(lines)) < hint) => r.h.pos = rfs_size(Store, fobj)

\* C21: readline(size) with size >= 0 returns at most size bytes, fewer when
\* a terminator or the end of the file comes first, and advances the offset
\* by the number of bytes returned, for any buffer size; readlines(hint)
\* with hint >= 0 stops calling readline once hint bytes are consumed.
C21_SizeLimit ==
    /\ SizedAdvances
    /\ HintStops
    /\ \A size \in 0..MaxLine :
         LET line == readline(Store, fobj, size).val
             rest == SubSeq(FileOf(Store, fobj).data, fobj.pos + 1, rfs_size(Store, fobj))
             eol == find(rest, NL)
         IN  /\ Len(line) <= size
             /\ Len(line) < size =>
                    \/ fobj.pos + Len(line) = rfs_size(Store, fobj)
                    \/ (Len(line) > 0 /\ line[Len(line)] = NL)
             /\ (eol >= 0 /\ eol < size) => Len(line) = eol + 1


----------------------------------------------------------------------------
(* Listing and resolution *)

\* getinfo resolves p, and listdir of p's parent returns p's leaf name
ListedByParent(s, p) ==
    getinfo(s, fs, p).err = "ok" =>
        LET l == listdir(s, fs, Parent(p))
        IN  l.err = "ok" /\ \E e \in l.val : e.name = p[Len(p)]

\* every name listdir(p) returns resolves through getinfo
ListingResolves(s, p) ==
    LET l == listdir(s, fs, p)
    IN  l.err = "ok" => \A e \in l.val : getinfo(s, fs, Append(p, e.name)).err = "ok"

\* C22: in every state one instance reaches, also an instance constructed
\* with create=True on a root other than /, every path but / that getinfo
\* resolves as a directory or a file is returned by its leaf name by listdir
\* of its parent, and every name listdir(p) returns resolves through getinfo
\* on p joined with the name.
C22_ListingAgrees ==
    \A p \in Paths :
        /\ p # << >> => ListedByParent(Store, p)
        /\ ListingResolves(Store, p)

=============================================================================
